---- MODULE Spec2Model ----
(***************************************************************************)
(* Federated-learning orchestration of mubahood/federated-ai:              *)
(*   FederatedLearningServer (server/fl_server/server.py),                 *)
(*   DjangoFedAvg and weighted_average (server/fl_server/strategy.py),     *)
(*   the TrainingSession / TrainingRound tables (server/training/models.py)*)
(*                                                                         *)
(* One behaviour is one process that constructs a FederatedLearningServer  *)
(* for a session id and calls start().  The round loop itself runs inside  *)
(* fl.server.start_server (Flower); it is modelled by what the call does   *)
(* to the strategy it is handed: for server_round = 1..num_rounds it runs  *)
(* a fit phase (configure_fit, the clients' fit calls, aggregate_fit) and  *)
(* then an evaluate phase (configure_evaluate, the clients' evaluate       *)
(* calls, aggregate_evaluate).  The clients' answers are inputs.           *)
(*                                                                         *)
(* Numbers: metric values, losses and parameters reported by clients are   *)
(* small naturals; every average is an exact fraction <<num, den>> in      *)
(* lowest terms, <<0, 0>> standing for a NaN.  None is <<>>, and so is the *)
(* empty dict.                                                             *)
(***************************************************************************)
EXTENDS Integers, Sequences, FiniteSets, TLC

VARIABLES
    sessions,          \* the TrainingSession table: id -> row
    rounds,            \* the TrainingRound table: sequence of rows, in insertion order
    training_session_id, \* FederatedLearningServer.training_session_id
    config,            \* FederatedLearningServer.config (an FLServerConfig)
    training_session,  \* FederatedLearningServer.training_session (in-memory row) or None
    current_round,     \* DjangoFedAvg.current_round
    parameters,        \* the current global parameters held by the Flower server
    server_round,      \* the round the loop inside start_server is in
    pc,                \* where the process is
    clock,             \* django.utils.timezone.now()
    fit_rounds,        \* history: the server_round of every fit phase begun
    evaluate_rounds,   \* history: the server_round of every evaluate phase ended
    last,              \* history: the most recent aggregate_* call, its inputs and outcome
    writers,           \* the processes inside _save_round_to_db: writer -> its position and locals
    entries,           \* the client results handed to the aggregation functions
    averaged,          \* what the aggregation functions made of entries, or None
    client_manager,    \* Flower's client manager: the clients connected, the time waited for them
    kwargs,            \* the arguments FLServerConfig is constructed with
    versions,          \* the ModelVersion table: sequence of rows, in insertion order
    requests,          \* the REST requests being served: handler -> its position and locals
    client             \* an FLClient and the fit call made on it

vars == <<sessions, rounds, training_session_id, config, training_session,
          current_round, parameters, server_round, pc, clock,
          fit_rounds, evaluate_rounds, last, writers, entries, averaged,
          client_manager, kwargs, versions, requests, client>>

\* the variables of the REST API, of the configuration, of the client
\* manager and of a client
elsewhere == <<client_manager, kwargs, versions, requests, client>>

\* the variables of the ledger writers and of the aggregation functions
\* taken alone, and those of elsewhere, which a session run leaves alone
apart == <<writers, entries, averaged, elsewhere>>

(***************************************************************************)
(* Bounds                                                                  *)
(***************************************************************************)
MaxRounds == 2

\* client ids (ClientProxy.cid) of the clients that may connect
Clients == {"c1", "c2"}

None == <<>>
EmptyDict == <<>>

(***************************************************************************)
(* Exact arithmetic                                                        *)
(***************************************************************************)
RECURSIVE GCD(_, _)
GCD(a, b) == IF b = 0 THEN a ELSE GCD(b, a % b)

\* n / d as a fraction in lowest terms; a zero denominator gives the NaN <<0, 0>>
Frac(n, d) == IF d = 0 THEN <<0, 0>>
              ELSE LET g == GCD(n, d) IN <<n \div g, d \div g>>

NaN == <<0, 0>>

RECURSIVE SeqSum(_)
SeqSum(s) == IF s = <<>> THEN 0 ELSE Head(s) + SeqSum(Tail(s))

\* dict.get(key, default)
Get(d, key, default) == IF key \in DOMAIN d THEN d[key] ELSE default

\* bool(x) of a dict or list
Truthy(x) == DOMAIN x # {}

(***************************************************************************)
(* weighted_average (strategy.py): metrics is a list of                    *)
(* <<num_examples, metrics_dict>>.  The result is [raised, value]: raised  *)
(* when the division by total_examples is a ZeroDivisionError.             *)
(***************************************************************************)
\* as weighted_average, but a key is averaged over the entries that have it
weighted_average_defined_only(metrics) ==
    IF metrics = <<>> THEN [raised |-> FALSE, value |-> EmptyDict]
    ELSE
      LET total_examples == SeqSum([i \in DOMAIN metrics |-> metrics[i][1]])
          all_keys == UNION {DOMAIN metrics[i][2] : i \in DOMAIN metrics}
          having(key) == SelectSeq(metrics, LAMBDA e : key \in DOMAIN e[2])
          weighted_sum(key) ==
              SeqSum([i \in DOMAIN having(key) |->
                         having(key)[i][1] * having(key)[i][2][key]])
          total(key) ==
              SeqSum([i \in DOMAIN having(key) |-> having(key)[i][1]])
      IN IF all_keys # {} /\ total_examples = 0
         THEN [raised |-> TRUE, value |-> EmptyDict]
         ELSE [raised |-> FALSE,
               value  |-> [key \in all_keys |->
                             Frac(weighted_sum(key), total(key))]]

\* as weighted_average, but with the keys of the first entry only
weighted_average_first_keys(metrics) ==
    IF metrics = <<>> THEN [raised |-> FALSE, value |-> EmptyDict]
    ELSE
      LET total_examples == SeqSum([i \in DOMAIN metrics |-> metrics[i][1]])
          all_keys == DOMAIN metrics[1][2]
          weighted_sum(key) ==
              SeqSum([i \in DOMAIN metrics |->
                         metrics[i][1] * Get(metrics[i][2], key, 0)])
      IN IF all_keys # {} /\ total_examples = 0
         THEN [raised |-> TRUE, value |-> EmptyDict]
         ELSE [raised |-> FALSE,
               value  |-> [key \in all_keys |->
                             Frac(weighted_sum(key), total_examples)]]

weighted_average(metrics) ==
    IF metrics = <<>> THEN [raised |-> FALSE, value |-> EmptyDict]
    ELSE
      LET total_examples == SeqSum([i \in DOMAIN metrics |-> metrics[i][1]])
          all_keys == UNION {DOMAIN metrics[i][2] : i \in DOMAIN metrics}
          weighted_sum(key) ==
              SeqSum([i \in DOMAIN metrics |->
                         metrics[i][1] * Get(metrics[i][2], key, 0)])
      IN IF all_keys # {} /\ total_examples = 0
         THEN [raised |-> TRUE, value |-> EmptyDict]
         ELSE [raised |-> FALSE,
               value  |-> [key \in all_keys |->
                             Frac(weighted_sum(key), total_examples)]]

(***************************************************************************)
(* FedAvg.aggregate_fit, reached through super().aggregate_fit(...)        *)
(* (strategy.py:114-116).  results is the list of successful FitRes in     *)
(* arrival order, failures the set of clients whose fit call failed.       *)
(* FedAvg returns (None, {}) for no results and for any failure when       *)
(* accept_failures is false; otherwise the parameters averaged with        *)
(* weights num_examples and fit_metrics_aggregation_fn of the              *)
(* <<num_examples, metrics>> pairs.  With a total of 0 examples the        *)
(* average divides by zero: zero_div says whether the installed FedAvg     *)
(* raises ZeroDivisionError there ("raise") or yields NaN arrays ("nan").  *)
(***************************************************************************)
ReturnNone == [raised |-> FALSE, value |-> None, metrics |-> EmptyDict]
Raise == [raised |-> TRUE, value |-> None, metrics |-> EmptyDict]

fit_metrics(results) ==
    [i \in DOMAIN results |-> <<results[i].num_examples, results[i].metrics>>]

\* as weighted_parameters, but the plain mean of the clients' parameters
weighted_parameters_unweighted(results) ==
    Frac(SeqSum([i \in DOMAIN results |-> results[i].parameters]),
         Len(results))

weighted_parameters(results) ==
    Frac(SeqSum([i \in DOMAIN results |->
                    results[i].num_examples * results[i].parameters]),
         SeqSum([i \in DOMAIN results |-> results[i].num_examples]))

super_aggregate_fit(results, failures, accept_failures, zero_div) ==
    IF results = <<>> THEN ReturnNone
    ELSE IF ~accept_failures /\ failures # {} THEN ReturnNone
    ELSE LET aggregated == weighted_parameters(results)
             m == weighted_average(fit_metrics(results))
         IN IF aggregated = NaN /\ zero_div = "raise" THEN Raise
            ELSE IF m.raised THEN Raise
            ELSE [raised |-> FALSE, value |-> aggregated, metrics |-> m.value]

(***************************************************************************)
(* FedAvg.aggregate_evaluate, reached through super().aggregate_evaluate   *)
(* (strategy.py:149-151): (None, {}) for no results and for any failure    *)
(* when accept_failures is false; otherwise the loss averaged with weights *)
(* num_examples (a ZeroDivisionError when they sum to 0) and               *)
(* evaluate_metrics_aggregation_fn of the <<num_examples, metrics>> pairs. *)
(***************************************************************************)
weighted_loss(results) ==
    Frac(SeqSum([i \in DOMAIN results |->
                    results[i].num_examples * results[i].loss]),
         SeqSum([i \in DOMAIN results |-> results[i].num_examples]))

super_aggregate_evaluate(results, failures, accept_failures) ==
    IF results = <<>> THEN ReturnNone
    ELSE IF ~accept_failures /\ failures # {} THEN ReturnNone
    ELSE LET loss == weighted_loss(results)
             m == weighted_average(fit_metrics(results))
         IN IF loss = NaN \/ m.raised THEN Raise
            ELSE [raised |-> FALSE, value |-> loss, metrics |-> m.value]

(***************************************************************************)
(* The Round Ledger: the TrainingRound table                               *)
(***************************************************************************)
\* TrainingRound.objects.filter(training_session_id=..., round_number=...)
Matching(rows, sid, round_number) ==
    {i \in DOMAIN rows : rows[i].training_session_id = sid
                          /\ rows[i].round_number = round_number}

\* a row as TrainingRound.objects.create makes it from get_or_create's
\* lookup and defaults; metrics is the model's default dict
NewRound(sid, round_number, num_clients) ==
    [training_session_id |-> sid, round_number |-> round_number,
     num_clients |-> num_clients, status |-> "completed", metrics |-> EmptyDict]

\* the outcomes of the database during one ledger write
DbOutcomes == {"ok", "get_fails", "save_fails"}

(***************************************************************************)
(* DjangoFedAvg._save_round_to_db: the table after the call.  Every        *)
(* exception (a failing query, MultipleObjectsReturned) is caught and      *)
(* printed.  get_or_create inserts the row before save() is reached, so a  *)
(* failing save() leaves a created row behind with its defaults.           *)
(***************************************************************************)
save_round_to_db_create(rows, sid, round_number, num_clients, aggregated_metrics, client_metrics, now, db) ==
    IF db = "get_fails" THEN rows
    ELSE Append(rows, [NewRound(sid, round_number, num_clients) EXCEPT
                          !.metrics = IF db = "save_fails" THEN EmptyDict
                                      ELSE [aggregated |-> aggregated_metrics,
                                            clients    |-> client_metrics,
                                            timestamp  |-> now]])

save_round_to_db(rows, sid, round_number, num_clients, aggregated_metrics, client_metrics, now, db) ==
    LET found == Matching(rows, sid, round_number)
        created == found = {}
        afterGet == IF created
                    THEN Append(rows, NewRound(sid, round_number, num_clients))
                    ELSE rows
        i == IF created THEN Len(rows) + 1 ELSE CHOOSE j \in found : TRUE
        metrics == [aggregated |-> aggregated_metrics,
                    clients    |-> client_metrics,
                    timestamp  |-> now]
    IN IF db = "get_fails" \/ Cardinality(found) > 1 THEN rows
       ELSE IF db = "save_fails" THEN afterGet
       ELSE [afterGet EXCEPT ![i] = [@ EXCEPT !.num_clients = num_clients,
                                              !.status = "completed",
                                              !.metrics = metrics]]

(***************************************************************************)
(* DjangoFedAvg._update_round_evaluation: the table after the call.  A     *)
(* missing round (DoesNotExist) and every other exception are caught and   *)
(* printed; nothing is returned or raised.                                 *)
(***************************************************************************)
update_round_evaluation_replace(rows, sid, round_number, loss, metrics, db) ==
    LET found == Matching(rows, sid, round_number)
        i == CHOOSE j \in found : TRUE
        evaluation == [loss |-> loss, metrics |-> metrics]
    IN IF db # "ok" \/ Cardinality(found) # 1 THEN rows
       ELSE [rows EXCEPT ![i] = [@ EXCEPT !.metrics =
                                              [evaluation |-> evaluation]]]

update_round_evaluation(rows, sid, round_number, loss, metrics, db) ==
    LET found == Matching(rows, sid, round_number)
        i == CHOOSE j \in found : TRUE
        evaluation == [loss |-> loss, metrics |-> metrics]
        old == rows[i].metrics
        merged == [k \in DOMAIN old \cup {"evaluation"} |->
                      IF k = "evaluation" THEN evaluation ELSE old[k]]
    IN IF db # "ok" \/ Cardinality(found) # 1 THEN rows
       ELSE [rows EXCEPT ![i] = [@ EXCEPT !.metrics = merged]]

\* whether an exception of a ledger write leaves the method that made it:
\* both methods end in "except Exception as e: print(...)"
LedgerErrorEscapes_reraise(db) == db # "ok"
LedgerErrorEscapes(db) == FALSE

\* whether a missing round leaves _update_round_evaluation as an error:
\* "except TrainingRound.DoesNotExist: print(...)"
RoundNotFoundEscapes == FALSE

\* whether _update_round_evaluation raises: the query fails, finds no row
\* (DoesNotExist) or several (MultipleObjectsReturned), or save() fails
update_round_evaluation_raised(rows, sid, round_number, db) ==
    LET found == Matching(rows, sid, round_number)
    IN IF db = "get_fails" THEN LedgerErrorEscapes(db)
       ELSE IF found = {} THEN RoundNotFoundEscapes
       ELSE IF Cardinality(found) > 1 THEN LedgerErrorEscapes("get_fails")
       ELSE IF db = "save_fails" THEN LedgerErrorEscapes(db)
       ELSE FALSE

\* whether aggregate_fit writes the round to the ledger (strategy.py:119)
ShouldSaveRound_always(aggregated_parameters) == TRUE
ShouldSaveRound(aggregated_parameters) == aggregated_parameters # None

(***************************************************************************)
(* DjangoFedAvg.aggregate_fit: [raised, value, metrics, rounds, wrote]     *)
(***************************************************************************)
\* the per-client entries collected before aggregation (strategy.py:103-111)
client_entry(r) ==
    [client_id    |-> r.cid,
     loss         |-> Get(r.metrics, "loss", 0),
     accuracy     |-> Get(r.metrics, "accuracy", 0),
     num_examples |-> r.num_examples]

client_metrics_of_all(results) ==
    [i \in DOMAIN results |-> client_entry(results[i])]
client_metrics_of(results) ==
    LET kept == SelectSeq(results, LAMBDA r : Truthy(r.metrics))
    IN [i \in DOMAIN kept |-> client_entry(kept[i])]

aggregate_fit(rows, sid, round_number, results, failures, accept_failures, zero_div, now, db) ==
    LET client_metrics == client_metrics_of(results)
        agg == super_aggregate_fit(results, failures, accept_failures, zero_div)
        save == ~agg.raised /\ ShouldSaveRound(agg.value)
    IN [raised |-> agg.raised \/ (save /\ LedgerErrorEscapes(db)),
        value  |-> agg.value, metrics |-> agg.metrics,
        wrote  |-> save,
        rounds |-> IF save
                   THEN save_round_to_db(rows, sid, round_number, Len(results),
                                         agg.metrics, client_metrics, now, db)
                   ELSE rows]

(***************************************************************************)
(* DjangoFedAvg.aggregate_evaluate: [raised, value, metrics, rounds, wrote]*)
(* The closing print formats aggregated_loss with :.4f, a TypeError when   *)
(* the loss is None.                                                       *)
(***************************************************************************)
aggregate_evaluate(rows, sid, round_number, results, failures, accept_failures, db) ==
    LET agg == super_aggregate_evaluate(results, failures, accept_failures)
        update == ~agg.raised /\ Truthy(agg.metrics)
        after == IF update
                 THEN update_round_evaluation(rows, sid, round_number,
                                              agg.value, agg.metrics, db)
                 ELSE rows
    IN [raised |-> \/ agg.raised
                   \/ update /\ update_round_evaluation_raised(
                                    rows, sid, round_number, db)
                   \/ agg.value = None,
        value  |-> agg.value, metrics |-> agg.metrics,
        wrote  |-> update, rounds |-> after]

(***************************************************************************)
(* Inputs: what a client answers in one phase                              *)
(***************************************************************************)
\* a client that was not sampled for the phase, and one whose call failed
NotSelected == [status |-> "none", parameters |-> 0, loss |-> 0,
                num_examples |-> 0, metrics |-> EmptyDict]
Failed == [status |-> "fail", parameters |-> 0, loss |-> 0,
           num_examples |-> 0, metrics |-> EmptyDict]

\* FitRes(parameters, num_examples, metrics) of a successful fit call
FitRes(parameters_, num_examples, metrics) ==
    [status |-> "ok", parameters |-> parameters_, loss |-> 0,
     num_examples |-> num_examples, metrics |-> metrics]

\* EvaluateRes(loss, num_examples, metrics) of a successful evaluate call
EvaluateRes(loss, num_examples, metrics) ==
    [status |-> "ok", parameters |-> 0, loss |-> loss,
     num_examples |-> num_examples, metrics |-> metrics]

\* the answers of an ordinary client
FitResults == { FitRes(1, 1, [loss |-> 2, accuracy |-> 0]) }
EvaluateResults == { EvaluateRes(1, 1, [accuracy |-> 1]) }

\* and those of any Flower client: other weights, a metrics dict without
\* accuracy, no examples, no metrics
AnyFitResults ==
    FitResults \cup { FitRes(4, 2, [loss |-> 1]),
                      FitRes(4, 0, [loss |-> 1]),
                      FitRes(1, 1, EmptyDict) }

\* the orders in which the clients of S can answer
Orders(S) == {o \in [1..Cardinality(S) -> S] :
                 \A i, j \in DOMAIN o : o[i] = o[j] => i = j}

\* the results list: the successful answers in arrival order
ResultsOf(outcome, order) ==
    [i \in DOMAIN order |->
        [cid          |-> order[i],
         parameters   |-> outcome[order[i]].parameters,
         loss         |-> outcome[order[i]].loss,
         num_examples |-> outcome[order[i]].num_examples,
         metrics      |-> outcome[order[i]].metrics]]

Selected(outcome) == {c \in Clients : outcome[c].status # "none"}
Succeeded(outcome) == {c \in Clients : outcome[c].status = "ok"}
FailuresOf(outcome) == {c \in Clients : outcome[c].status = "fail"}

\* configure_fit/configure_evaluate sample at least min_fit_clients clients
\* or, with too few available, none
Sampled(outcome) ==
    \/ Selected(outcome) = {}
    \/ Cardinality(Selected(outcome)) >= config.min_fit_clients

(***************************************************************************)
(* State                                                                   *)
(***************************************************************************)
Statuses == {"pending", "running", "completed", "failed", "cancelled"}

\* the ids a caller may pass; only the first has a TrainingSession row
SessionIds == {1, 2}

\* the parameters DjangoFedAvg.__init__ hands to FedAvg as initial_parameters
InitialParameters == <<0, 1>>

NoCall == [phase |-> "none", server_round |-> 0, results |-> <<>>,
           failures |-> {}, raised |-> FALSE, value |-> None,
           metrics |-> EmptyDict, wrote |-> FALSE, db |-> "ok"]

\* no client manager, configuration arguments, model versions, REST requests
\* or client: the state of elsewhere in a run that does not involve them
NoManager == [available |-> 0, waited |-> 0, phase |-> <<0, "new">>]

NothingElse ==
    /\ client_manager = NoManager
    /\ kwargs = None
    /\ versions = <<>>
    /\ requests = <<>>
    /\ client = None

Init ==
    /\ \E s \in Statuses :
          sessions = [id \in {1} |->
                        [status |-> s, current_round |-> 0, num_rounds |-> 1]]
    /\ rounds = <<>>
    /\ training_session_id \in SessionIds
    /\ config \in [num_rounds : 1..MaxRounds,
                    accept_failures : BOOLEAN,
                    min_fit_clients : 1..Cardinality(Clients)]
    /\ training_session = None
    /\ current_round = 0
    /\ parameters = InitialParameters
    /\ server_round = 0
    /\ pc = "new"
    /\ clock = 0
    /\ fit_rounds = <<>>
    /\ evaluate_rounds = <<>>
    /\ last = NoCall
    /\ writers = <<>>
    /\ entries = <<>>
    /\ averaged = None
    /\ NothingElse

(***************************************************************************)
(* FederatedLearningServer.__init__: _load_training_session, then          *)
(* _create_strategy.  An unknown id raises ValueError.                     *)
(***************************************************************************)
\* as _load_training_session, but a session that is not there is created
load_training_session_create(table, id) ==
    IF id \in DOMAIN table
    THEN [raised |-> FALSE, training_session |-> table[id], sessions |-> table]
    ELSE LET created == [status |-> "pending", current_round |-> 0,
                         num_rounds |-> 1]
         IN [raised |-> FALSE, training_session |-> created,
             sessions |-> (id :> created) @@ table]

\* _load_training_session: TrainingSession.objects.get(id=...), a read; for
\* DoesNotExist it raises ValueError("... not found")
load_training_session(table, id) ==
    IF id \in DOMAIN table
    THEN [raised |-> FALSE, training_session |-> table[id], sessions |-> table]
    ELSE [raised |-> TRUE, training_session |-> None, sessions |-> table]

Construct ==
    /\ pc = "new"
    /\ LET loaded == load_training_session(sessions, training_session_id)
       IN /\ sessions' = loaded.sessions
          /\ IF ~loaded.raised
             THEN /\ training_session' = loaded.training_session
                  /\ current_round' = 0
                  /\ parameters' = InitialParameters
                  /\ pc' = "ready"
             ELSE /\ pc' = "not_found"
                  /\ UNCHANGED <<training_session, current_round,
                                 parameters>>
    /\ clock' = clock + 1
    /\ UNCHANGED <<rounds, training_session_id, config,
                   server_round, fit_rounds, evaluate_rounds, last, apart>>

(***************************************************************************)
(* FederatedLearningServer.start                                           *)
(***************************************************************************)
\* training_session.status = s; training_session.save()
SaveStatus(s) ==
    /\ training_session' = [training_session EXCEPT !.status = s]
    /\ sessions' = [sessions EXCEPT ![training_session_id] =
                                       [training_session EXCEPT !.status = s]]

\* ServerConfig(num_rounds=self.config.num_rounds)
RoundsToDrive == config.num_rounds

\* the loop of start_server: the round after round r, and whether round r
\* is the last one
NextRound_skip(r) == r + 2
NextRound(r) == r + 1

LoopDone_one_more(r) == r > RoundsToDrive
LoopDone(r) == r >= RoundsToDrive

\* accept_failures=self.config.accept_failures, as _create_strategy hands it
\* to the strategy; FedAvg's own default is True
AcceptFailures_default == TRUE
AcceptFailures == config.accept_failures

\* start() up to the first round: status running, saved, then start_server
Start ==
    /\ pc = "ready"
    /\ SaveStatus("running")
    /\ server_round' = NextRound(0)
    /\ pc' = "fit"
    /\ clock' = clock + 1
    /\ UNCHANGED <<rounds, training_session_id, config, current_round,
                   parameters, fit_rounds, evaluate_rounds, last, apart>>

\* the except branch of start(): status failed, saved, the exception re-raised
FailSession ==
    /\ SaveStatus("failed")
    /\ pc' = "raised"

\* start_server has returned: status completed, saved
CompleteSession ==
    /\ SaveStatus("completed")
    /\ pc' = "returned"

(***************************************************************************)
(* One fit phase of the loop inside start_server (server.py:123-127).      *)
(* configure_fit samples the clients; with none sampled the phase is       *)
(* cancelled and aggregate_fit is not called.  Otherwise the answers are   *)
(* handed to DjangoFedAvg.aggregate_fit: an exception it raises leaves     *)
(* start_server and reaches the except branch of start(); returned         *)
(* parameters replace the global ones, None leaves them.                   *)
(***************************************************************************)
FitCall(outcome, order, zero_div, db) ==
    aggregate_fit(rounds, training_session_id, server_round,
                  ResultsOf(outcome, order), FailuresOf(outcome),
                  AcceptFailures, zero_div, clock, db)

FitRound(outcome, order, zero_div, db) ==
    /\ pc = "fit"
    /\ fit_rounds' = Append(fit_rounds, server_round)
    /\ LET r == FitCall(outcome, order, zero_div, db)
       IN IF Selected(outcome) = {}
          THEN /\ pc' = "evaluate"
               /\ UNCHANGED <<sessions, training_session, rounds,
                              current_round, parameters>>
          ELSE /\ current_round' = server_round
               /\ rounds' = r.rounds
               /\ IF r.raised
                  THEN /\ FailSession
                       /\ UNCHANGED parameters
                  ELSE /\ parameters' = IF r.value # None THEN r.value
                                        ELSE parameters
                       /\ pc' = "evaluate"
                       /\ UNCHANGED <<sessions, training_session>>
    /\ clock' = clock + 1
    /\ UNCHANGED <<training_session_id, config, server_round,
                   evaluate_rounds, apart>>

(***************************************************************************)
(* One evaluate phase of the loop, then the next round or the end of       *)
(* start_server, after which start() saves status completed.               *)
(***************************************************************************)
EvaluateCall(outcome, order, db) ==
    aggregate_evaluate(rounds, training_session_id, server_round,
                       ResultsOf(outcome, order), FailuresOf(outcome),
                       AcceptFailures, db)

EvaluateRound(outcome, order, db) ==
    /\ pc = "evaluate"
    /\ evaluate_rounds' = Append(evaluate_rounds, server_round)
    /\ LET r == EvaluateCall(outcome, order, db)
           called == Selected(outcome) # {}
       IN /\ rounds' = IF called THEN r.rounds ELSE rounds
          /\ IF called /\ r.raised
             THEN /\ FailSession
                  /\ UNCHANGED server_round
             ELSE IF LoopDone(server_round)
             THEN /\ CompleteSession
                  /\ UNCHANGED server_round
             ELSE /\ server_round' = NextRound(server_round)
                  /\ pc' = "fit"
                  /\ UNCHANGED <<sessions, training_session>>
    /\ clock' = clock + 1
    /\ UNCHANGED <<training_session_id, config, current_round, parameters,
                   fit_rounds, apart>>

(***************************************************************************)
(* An exception that leaves start_server without coming from the           *)
(* aggregation: an Exception (a transport error) is caught by start(),     *)
(* which saves status failed and re-raises; a BaseException that is no     *)
(* Exception (KeyboardInterrupt, SystemExit) passes the except clause and  *)
(* leaves start() with the session as it was.                              *)
(***************************************************************************)
TransportError ==
    /\ pc \in {"fit", "evaluate"}
    /\ FailSession
    /\ clock' = clock + 1
    /\ UNCHANGED <<rounds, training_session_id, config, current_round,
                   parameters, server_round, fit_rounds, evaluate_rounds, last,
                   apart>>

Interrupt ==
    /\ pc \in {"fit", "evaluate"}
    /\ pc' = "interrupted"
    /\ clock' = clock + 1
    /\ UNCHANGED <<sessions, rounds, training_session_id, config,
                   training_session, current_round, parameters,
                   server_round, fit_rounds, evaluate_rounds, last, apart>>

(***************************************************************************)
(* Spec: a session run from construction to the end of start(), with       *)
(* ordinary clients.                                                       *)
(***************************************************************************)
FitOutcomes == [Clients -> {NotSelected, Failed} \cup FitResults]
EvaluateOutcomes == [Clients -> {NotSelected, Failed} \cup EvaluateResults]

Next ==
    \/ Construct
    \/ Start
    \/ \E outcome \in FitOutcomes :
         /\ Sampled(outcome)
         /\ \E order \in Orders(Succeeded(outcome)), db \in DbOutcomes :
              FitRound(outcome, order, "raise", db)
         /\ UNCHANGED last
    \/ \E outcome \in EvaluateOutcomes :
         /\ Sampled(outcome)
         /\ \E order \in Orders(Succeeded(outcome)), db \in DbOutcomes :
              EvaluateRound(outcome, order, db)
         /\ UNCHANGED last
    \/ TransportError
    \/ Interrupt

Spec == Init /\ [][Next]_vars

(***************************************************************************)
(* SpecRound: the last round of a run, a fit phase with the answers of any *)
(* Flower client, then the evaluate phase.  It starts where Spec stands when the *)
(* fit phase of round config.num_rounds begins: the session running, the   *)
(* earlier rounds driven with ordinary clients (either all cancelled, or   *)
(* the one before answered by the first client alone).  last records each  *)
(* aggregate_* call.                                                       *)
(***************************************************************************)
\* the first ordinary answer, as a results list of client c
OrdinaryResults(c) ==
    ResultsOf([d \in Clients |-> CHOOSE f \in FitResults : TRUE], <<c>>)

\* the ledger after round r was answered by client c alone and saved at t
EarlierRound(r, c, t) ==
    aggregate_fit(<<>>, 1, r, OrdinaryResults(c), {}, TRUE, "raise", t,
                  "ok").rounds

InitRound ==
    /\ sessions = [id \in {1} |->
                     [status |-> "running", current_round |-> 0,
                      num_rounds |-> 1]]
    /\ training_session = sessions[1]
    /\ training_session_id = 1
    /\ config \in [num_rounds : 1..MaxRounds,
                    accept_failures : BOOLEAN,
                    min_fit_clients : 1..Cardinality(Clients)]
    /\ server_round = config.num_rounds
    /\ pc = "fit"
    /\ clock = 2 * server_round
    /\ fit_rounds = [i \in 1..(server_round - 1) |-> i]
    /\ evaluate_rounds = fit_rounds
    /\ \/ /\ current_round = 0
          /\ parameters = InitialParameters
          /\ rounds = <<>>
       \/ /\ server_round > 1
          /\ config.min_fit_clients = 1
          /\ current_round = server_round - 1
          /\ \E c \in Clients :
               /\ parameters = weighted_parameters(OrdinaryResults(c))
               /\ rounds = EarlierRound(server_round - 1, c, clock - 2)
    /\ last = NoCall
    /\ writers = <<>>
    /\ entries = <<>>
    /\ averaged = None
    /\ NothingElse

Observation(phase, results, failures, r, db) ==
    [phase |-> phase, server_round |-> server_round, results |-> results,
     failures |-> failures, raised |-> r.raised, value |-> r.value,
     metrics |-> r.metrics, wrote |-> r.wrote, db |-> db]

AnyFitOutcomes == [Clients -> {NotSelected, Failed} \cup AnyFitResults]

RoundStep ==
    \/ \E outcome \in AnyFitOutcomes :
         /\ Sampled(outcome)
         /\ \E order \in Orders(Succeeded(outcome)),
               zero_div \in {"raise", "nan"}, db \in DbOutcomes :
              /\ FitRound(outcome, order, zero_div, db)
              /\ last' = IF Selected(outcome) = {} THEN last
                         ELSE Observation("fit", ResultsOf(outcome, order),
                                          FailuresOf(outcome),
                                          FitCall(outcome, order, zero_div, db),
                                          db)
    \/ \E outcome \in EvaluateOutcomes :
         /\ Sampled(outcome)
         /\ \E order \in Orders(Succeeded(outcome)), db \in DbOutcomes :
              /\ EvaluateRound(outcome, order, db)
              /\ last' = IF Selected(outcome) = {} THEN last
                         ELSE Observation("evaluate",
                                          ResultsOf(outcome, order),
                                          FailuresOf(outcome),
                                          EvaluateCall(outcome, order, db), db)

SpecRound == InitRound /\ [][RoundStep]_vars

(***************************************************************************)
(* SpecLedger: the Round Ledger under the calls one strategy makes, one    *)
(* after the other: _save_round_to_db (the fit upsert) and                 *)
(* _update_round_evaluation (the evaluation attach) with any round number, *)
(* in any order, the database answering or failing.  The table may hold a  *)
(* round of another session.  last records each call.                      *)
(***************************************************************************)
MaxCalls == 3

\* the arguments aggregate_fit hands to _save_round_to_db for a results list
UpsertArgs(results) ==
    [num_clients        |-> Len(results),
     aggregated_metrics |-> weighted_average(fit_metrics(results)).value,
     client_metrics     |-> client_metrics_of(results)]

LedgerResults ==
    { OrdinaryResults("c1"),
      ResultsOf([c \in Clients |-> IF c = "c1" THEN FitRes(4, 2, [loss |-> 1])
                                   ELSE FitRes(1, 1, EmptyDict)],
                <<"c2", "c1">>) }

\* the arguments aggregate_evaluate hands to _update_round_evaluation
AttachArgs == { [loss |-> Frac(1, 1), metrics |-> [accuracy |-> Frac(1, 1)]],
                [loss |-> Frac(3, 2), metrics |-> [accuracy |-> Frac(1, 2)]] }

\* round 1 of a session that is not the strategy's
OtherSessionRound ==
    [EarlierRound(1, "c2", 0) EXCEPT ![1].training_session_id = 2]

InitLedger ==
    /\ sessions = [id \in {1} |->
                     [status |-> "running", current_round |-> 0,
                      num_rounds |-> 1]]
    /\ training_session = sessions[1]
    /\ training_session_id = 1
    /\ config = [num_rounds |-> MaxRounds, accept_failures |-> TRUE,
                 min_fit_clients |-> 1]
    /\ rounds \in {<<>>, OtherSessionRound}
    /\ current_round = 0
    /\ parameters = InitialParameters
    /\ server_round = 0
    /\ pc = "ledger"
    /\ clock = 1
    /\ fit_rounds = <<>>
    /\ evaluate_rounds = <<>>
    /\ last = NoCall
    /\ writers = <<>>
    /\ entries = <<>>
    /\ averaged = None
    /\ NothingElse

\* a call as last records it: found is the number of records the key had
LedgerCall(method, round_number, args, raised, db) ==
    [phase |-> method, round_number |-> round_number, args |-> args,
     raised |-> raised, db |-> db, now |-> clock,
     found |-> Cardinality(Matching(rounds, training_session_id,
                                    round_number))]

UpsertFitResult(round_number, results, db) ==
    /\ clock <= MaxCalls
    /\ LET args == UpsertArgs(results)
       IN /\ rounds' = save_round_to_db(rounds, training_session_id,
                                        round_number, args.num_clients,
                                        args.aggregated_metrics,
                                        args.client_metrics, clock, db)
          /\ last' = LedgerCall("upsert", round_number, args,
                                LedgerErrorEscapes(db), db)
    /\ clock' = clock + 1
    /\ UNCHANGED <<sessions, training_session_id, config, training_session,
                   current_round, parameters, server_round, pc,
                   fit_rounds, evaluate_rounds, apart>>

AttachEvaluation(round_number, args, db) ==
    /\ clock <= MaxCalls
    /\ rounds' = update_round_evaluation(rounds, training_session_id,
                                         round_number, args.loss,
                                         args.metrics, db)
    /\ last' = LedgerCall("attach", round_number, args,
                          update_round_evaluation_raised(
                              rounds, training_session_id, round_number, db),
                          db)
    /\ clock' = clock + 1
    /\ UNCHANGED <<sessions, training_session_id, config, training_session,
                   current_round, parameters, server_round, pc,
                   fit_rounds, evaluate_rounds, apart>>

LedgerStep ==
    \/ \E round_number \in 1..MaxRounds, results \in LedgerResults,
          db \in DbOutcomes :
         UpsertFitResult(round_number, results, db)
    \/ \E round_number \in 1..MaxRounds, args \in AttachArgs,
          db \in DbOutcomes :
         AttachEvaluation(round_number, args, db)

SpecLedger == InitLedger /\ [][LedgerStep]_vars

(***************************************************************************)
(* SpecWriters: the Round Ledger under concurrent writers, processes that  *)
(* each run a strategy for the same session (start() does not look whether *)
(* the session is running already) and are inside _save_round_to_db or     *)
(* _update_round_evaluation at the same time.  Each database operation is  *)
(* one step: get_or_create is a SELECT and, when no row is found, an       *)
(* INSERT (no unique constraint covers (training_session, round_number),   *)
(* so the INSERT never fails); save() is an UPDATE of the row the          *)
(* in-memory object was loaded from, with all its fields.  A lookup that   *)
(* finds several rows raises MultipleObjectsReturned, which the method     *)
(* catches and prints.                                                     *)
(***************************************************************************)
Writers == {"w1", "w2"}

Idle == [pc |-> "idle", error |-> "none"]

\* a writer at rest after a call that ended with the outcome error
Rest(error) == [pc |-> "idle", error |-> error]

InitWriters ==
    /\ sessions = [id \in {1} |->
                     [status |-> "running", current_round |-> 0,
                      num_rounds |-> 1]]
    /\ training_session = sessions[1]
    /\ training_session_id = 1
    /\ config = [num_rounds |-> MaxRounds, accept_failures |-> TRUE,
                 min_fit_clients |-> 1]
    /\ rounds = <<>>
    /\ current_round = 0
    /\ parameters = InitialParameters
    /\ server_round = 0
    /\ pc = "ledger"
    /\ clock = 1
    /\ fit_rounds = <<>>
    /\ evaluate_rounds = <<>>
    /\ last = NoCall
    /\ writers = [w \in Writers |-> Idle]
    /\ entries = <<>>
    /\ averaged = None
    /\ NothingElse

WritersFrame ==
    UNCHANGED <<sessions, training_session_id, config, training_session,
                current_round, parameters, server_round, pc, fit_rounds,
                evaluate_rounds, last, entries, averaged, elsewhere>>

\* _save_round_to_db, get_or_create: the lookup
UpsertGet(w, round_number, results) ==
    /\ writers[w].pc = "idle"
    /\ clock <= MaxCalls
    /\ LET found == Matching(rounds, training_session_id, round_number)
           call == [round_number |-> round_number,
                    args |-> UpsertArgs(results), error |-> "none"]
       IN writers' = [writers EXCEPT ![w] =
             IF Cardinality(found) > 1 THEN Rest("MultipleObjectsReturned")
             ELSE IF found = {}
             THEN [pc |-> "create"] @@ call
             ELSE LET i == CHOOSE j \in found : TRUE
                  IN [pc |-> "save", row |-> i,
                      training_round |->
                         [rounds[i] EXCEPT
                             !.num_clients = call.args.num_clients,
                             !.status = "completed"]] @@ call]
    /\ clock' = clock + 1
    /\ UNCHANGED rounds
    /\ WritersFrame

\* get_or_create: no row was found, one is inserted with the defaults
UpsertCreate(w) ==
    /\ writers[w].pc = "create"
    /\ LET new == NewRound(training_session_id, writers[w].round_number,
                           writers[w].args.num_clients)
       IN /\ rounds' = Append(rounds, new)
          /\ writers' = [writers EXCEPT ![w] =
                [pc |-> "save", row |-> Len(rounds) + 1,
                 training_round |-> new,
                 round_number |-> @.round_number, args |-> @.args,
                 error |-> "none"]]
    /\ UNCHANGED clock
    /\ WritersFrame

\* training_round.metrics = {...}; training_round.save()
UpsertSave(w) ==
    /\ writers[w].pc = "save"
    /\ LET metrics == [aggregated |-> writers[w].args.aggregated_metrics,
                       clients    |-> writers[w].args.client_metrics,
                       timestamp  |-> clock]
       IN rounds' = [rounds EXCEPT ![writers[w].row] =
                       [writers[w].training_round EXCEPT !.metrics = metrics]]
    /\ writers' = [writers EXCEPT ![w] = Rest("ok")]
    /\ UNCHANGED clock
    /\ WritersFrame

\* _update_round_evaluation: the lookup
AttachGet(w, round_number) ==
    /\ writers[w].pc = "idle"
    /\ clock <= MaxCalls
    /\ LET found == Matching(rounds, training_session_id, round_number)
           args == CHOOSE a \in AttachArgs : TRUE
       IN writers' = [writers EXCEPT ![w] =
             IF Cardinality(found) > 1 THEN Rest("MultipleObjectsReturned")
             ELSE IF found = {} THEN Rest("DoesNotExist")
             ELSE LET i == CHOOSE j \in found : TRUE
                      old == rounds[i].metrics
                      evaluation == [loss |-> args.loss,
                                     metrics |-> args.metrics]
                  IN [pc |-> "attach", row |-> i, error |-> "none",
                      training_round |->
                         [rounds[i] EXCEPT !.metrics =
                            [k \in DOMAIN old \cup {"evaluation"} |->
                               IF k = "evaluation" THEN evaluation
                               ELSE old[k]]]]]
    /\ clock' = clock + 1
    /\ UNCHANGED rounds
    /\ WritersFrame

\* training_round.save() of _update_round_evaluation
AttachSave(w) ==
    /\ writers[w].pc = "attach"
    /\ rounds' = [rounds EXCEPT ![writers[w].row] =
                     writers[w].training_round]
    /\ writers' = [writers EXCEPT ![w] = Rest("ok")]
    /\ UNCHANGED clock
    /\ WritersFrame

WritersStep ==
    \/ \E w \in Writers, round_number \in 1..MaxRounds,
          results \in LedgerResults :
         UpsertGet(w, round_number, results)
    \/ \E w \in Writers : UpsertCreate(w)
    \/ \E w \in Writers : UpsertSave(w)
    \/ \E w \in Writers, round_number \in 1..MaxRounds :
         AttachGet(w, round_number)
    \/ \E w \in Writers : AttachSave(w)

SpecWriters == InitWriters /\ [][WritersStep]_vars

(***************************************************************************)
(* SpecAverage: the aggregation functions taken alone.  entries is any     *)
(* list of up to MaxEntries client results; one step hands it to           *)
(* weighted_average (as <<num_examples, metrics>> pairs) and to FedAvg's   *)
(* aggregate_fit and keeps what they give.                                 *)
(***************************************************************************)
MaxEntries == 3

\* what a client may report: a metric missing, no metrics, no examples
AverageInputs ==
    AnyFitResults \cup { FitRes(2, 0, EmptyDict),
                         FitRes(0, 3, [accuracy |-> 1]) }

InitAverage ==
    /\ sessions = [id \in {1} |->
                     [status |-> "running", current_round |-> 0,
                      num_rounds |-> 1]]
    /\ training_session = sessions[1]
    /\ training_session_id = 1
    /\ config = [num_rounds |-> MaxRounds, accept_failures |-> TRUE,
                 min_fit_clients |-> 1]
    /\ rounds = <<>>
    /\ current_round = 0
    /\ parameters = InitialParameters
    /\ server_round = 0
    /\ pc = "average"
    /\ clock = 0
    /\ fit_rounds = <<>>
    /\ evaluate_rounds = <<>>
    /\ last = NoCall
    /\ writers = <<>>
    /\ entries \in UNION {[1..n -> AverageInputs] : n \in 0..MaxEntries}
    /\ averaged = None
    /\ NothingElse

Average(zero_div) ==
    /\ averaged = None
    /\ averaged' = [metrics |-> weighted_average(fit_metrics(entries)),
                    fit |-> super_aggregate_fit(entries, {}, TRUE, zero_div),
                    zero_div |-> zero_div]
    /\ UNCHANGED <<sessions, rounds, training_session_id, config,
                   training_session, current_round, parameters, server_round,
                   pc, clock, fit_rounds, evaluate_rounds, last, writers,
                   entries, elsewhere>>

AverageStep == \E zero_div \in {"raise", "nan"} : Average(zero_div)

SpecAverage == InitAverage /\ [][AverageStep]_vars

(***************************************************************************)
(* SpecAvailability: a session run in which clients connect and disconnect *)
(* while the loop inside start_server samples them.  configure_fit and     *)
(* configure_evaluate call client_manager.sample(sample_size,               *)
(* min_available_clients), which blocks in wait_for until that many        *)
(* clients are connected or WaitForTimeout seconds have passed, and then   *)
(* samples sample_size clients, or none when fewer are connected; with     *)
(* none the phase is cancelled and the loop goes on.  start() builds       *)
(* ServerConfig(num_rounds=...) and hands config.round_timeout to nobody.  *)
(* Time passes from one instant of interest to the next.                   *)
(***************************************************************************)
\* the timeout of wait_for in Flower's SimpleClientManager, in seconds
WaitForTimeout == 86400

\* FLServerConfig.round_timeout, in seconds
round_timeout == 600

InitAvailability ==
    /\ sessions = [id \in {1} |->
                     [status |-> "pending", current_round |-> 0,
                      num_rounds |-> 1]]
    /\ rounds = <<>>
    /\ training_session_id = 1
    /\ \E c \in [num_rounds : 1..MaxRounds,
                 accept_failures : {TRUE},
                 min_fit_clients : 1..Cardinality(Clients),
                 min_available_clients : 1..Cardinality(Clients),
                 round_timeout : {round_timeout}] :
          /\ c.min_available_clients >= c.min_fit_clients
          /\ config = c
    /\ training_session = None
    /\ current_round = 0
    /\ parameters = InitialParameters
    /\ server_round = 0
    /\ pc = "new"
    /\ clock = 0
    /\ fit_rounds = <<>>
    /\ evaluate_rounds = <<>>
    /\ last = NoCall
    /\ writers = <<>>
    /\ entries = <<>>
    /\ averaged = None
    /\ client_manager \in [available : 0..Cardinality(Clients),
                           waited : {0}, phase : {<<0, "new">>}]
    /\ kwargs = None
    /\ versions = <<>>
    /\ requests = <<>>
    /\ client = None

\* the seconds the phase the loop is in has waited for clients
Waited ==
    IF client_manager.phase = <<server_round, pc>> THEN client_manager.waited
    ELSE 0

\* the instants at which something could happen to a waiting phase
Instants == {config.round_timeout, config.round_timeout + 1, WaitForTimeout}

\* FedAvg.num_fit_clients with fraction_fit = 1.0
SampleSize ==
    IF client_manager.available > config.min_fit_clients
    THEN client_manager.available ELSE config.min_fit_clients

\* a client connects or disconnects
ClientsChange(n) ==
    /\ n # client_manager.available
    /\ client_manager' = [client_manager EXCEPT !.available = n]
    /\ UNCHANGED <<sessions, rounds, training_session_id, config,
                   training_session, current_round, parameters, server_round,
                   pc, clock, fit_rounds, evaluate_rounds, last, writers,
                   entries, averaged, kwargs, versions, requests, client>>

\* wait_for: too few clients are connected, time passes
WaitFor ==
    /\ pc \in {"fit", "evaluate"}
    /\ client_manager.available < config.min_available_clients
    /\ Waited < WaitForTimeout
    /\ client_manager' =
          [client_manager EXCEPT
              !.waited = CHOOSE t \in Instants :
                            /\ t > Waited
                            /\ \A u \in Instants : u > Waited => t <= u,
              !.phase = <<server_round, pc>>]
    /\ UNCHANGED <<sessions, rounds, training_session_id, config,
                   training_session, current_round, parameters, server_round,
                   pc, clock, fit_rounds, evaluate_rounds, last, writers,
                   entries, averaged, kwargs, versions, requests, client>>

\* wait_for has returned: enough clients are connected, or it timed out
WaitOver ==
    \/ client_manager.available >= config.min_available_clients
    \/ Waited = WaitForTimeout

\* sample: sample_size clients, or none when fewer are connected
SampledOf(outcome) ==
    Cardinality(Selected(outcome)) =
       IF client_manager.available >= SampleSize THEN SampleSize ELSE 0

AvailabilityStep ==
    \/ Construct
    \/ Start
    \/ \E n \in 0..Cardinality(Clients) : ClientsChange(n)
    \/ WaitFor
    \/ \E outcome \in FitOutcomes :
         /\ WaitOver
         /\ SampledOf(outcome)
         /\ \E order \in Orders(Succeeded(outcome)) :
              FitRound(outcome, order, "raise", "ok")
         /\ UNCHANGED last
    \/ \E outcome \in EvaluateOutcomes :
         /\ WaitOver
         /\ SampledOf(outcome)
         /\ \E order \in Orders(Succeeded(outcome)) :
              EvaluateRound(outcome, order, "ok")
         /\ UNCHANGED last

SpecAvailability == InitAvailability /\ [][AvailabilityStep]_vars

(***************************************************************************)
(* SpecConfig: the construction of an FLServerConfig (config.py).  The     *)
(* dataclass assigns every field from its argument and then runs           *)
(* __post_init__, which raises ValueError or returns; kwargs are the       *)
(* arguments of the five fields it looks at.  The fractions are <<n, d>>   *)
(* with d > 0.                                                             *)
(***************************************************************************)
MaxMin == 2

\* a < b and a <= b of two fractions
FracLess(a, b) == a[1] * b[2] < b[1] * a[2]
FracLeq(a, b) == a[1] * b[2] <= b[1] * a[2]

\* max(a, b)
Max(a, b) == IF a >= b THEN a ELSE b

\* as __post_init__, but min_available_clients is compared with
\* min_fit_clients alone
post_init_fit_only(self) ==
    IF self.min_fit_clients < 1 THEN "ValueError"
    ELSE IF self.min_evaluate_clients < 1 THEN "ValueError"
    ELSE IF self.min_available_clients < self.min_fit_clients
    THEN "ValueError"
    ELSE IF ~(FracLess(<<0, 1>>, self.fraction_fit)
              /\ FracLeq(self.fraction_fit, <<1, 1>>))
    THEN "ValueError"
    ELSE IF ~(FracLess(<<0, 1>>, self.fraction_evaluate)
              /\ FracLeq(self.fraction_evaluate, <<1, 1>>))
    THEN "ValueError"
    ELSE "None"

\* FLServerConfig.__post_init__: "ValueError" when it raises, "None" when
\* it returns
post_init(self) ==
    IF self.min_fit_clients < 1 THEN "ValueError"
    ELSE IF self.min_evaluate_clients < 1 THEN "ValueError"
    ELSE IF self.min_available_clients
               < Max(self.min_fit_clients, self.min_evaluate_clients)
    THEN "ValueError"
    ELSE IF ~(FracLess(<<0, 1>>, self.fraction_fit)
              /\ FracLeq(self.fraction_fit, <<1, 1>>))
    THEN "ValueError"
    ELSE IF ~(FracLess(<<0, 1>>, self.fraction_evaluate)
              /\ FracLeq(self.fraction_evaluate, <<1, 1>>))
    THEN "ValueError"
    ELSE "None"

\* the fractions a caller may pass: negative, 0, 1/2, 1, 3/2
Fractions == {<<0 - 1, 2>>, <<0, 1>>, <<1, 2>>, <<1, 1>>, <<3, 2>>}

InitConfig ==
    /\ sessions = [id \in {1} |->
                     [status |-> "pending", current_round |-> 0,
                      num_rounds |-> 1]]
    /\ rounds = <<>>
    /\ training_session_id = 1
    /\ config = None
    /\ training_session = None
    /\ current_round = 0
    /\ parameters = InitialParameters
    /\ server_round = 0
    /\ pc = "config"
    /\ clock = 0
    /\ fit_rounds = <<>>
    /\ evaluate_rounds = <<>>
    /\ last = NoCall
    /\ writers = <<>>
    /\ entries = <<>>
    /\ averaged = None
    /\ client_manager = NoManager
    /\ kwargs \in [min_fit_clients : (0 - 1)..MaxMin,
                   min_evaluate_clients : (0 - 1)..MaxMin,
                   min_available_clients : (0 - 1)..MaxMin,
                   fraction_fit : Fractions,
                   fraction_evaluate : Fractions]
    /\ versions = <<>>
    /\ requests = <<>>
    /\ client = None

\* FLServerConfig(**kwargs): the fields assigned, then __post_init__
ConstructConfig ==
    /\ pc = "config"
    /\ LET self == kwargs
       IN IF post_init(self) = "ValueError"
          THEN /\ pc' = "ValueError"
               /\ UNCHANGED config
          ELSE /\ pc' = "constructed"
               /\ config' = self
    /\ UNCHANGED <<sessions, rounds, training_session_id, training_session,
                   current_round, parameters, server_round, clock, fit_rounds,
                   evaluate_rounds, last, apart>>

ConfigStep == ConstructConfig

SpecConfig == InitConfig /\ [][ConfigStep]_vars

(***************************************************************************)
(* SpecModels: the ModelVersion table under the REST API                   *)
(* (ModelVersionViewSet, training/views.py), its requests served by        *)
(* handlers that run at the same time.  A row is [is_production,           *)
(* deployed_at].  deploy is three database operations: get_object (a       *)
(* SELECT into an in-memory object), the UPDATE that clears the flag of    *)
(* every production row, and save() of the in-memory object with the flag  *)
(* set; nothing holds them together (no transaction, no lock, no           *)
(* constraint on is_production).  undeploy assigns both fields and saves.  *)
(* create and update go through ModelVersionSerializer, in which           *)
(* is_production is a writable field.                                      *)
(***************************************************************************)
MaxVersions == 3

Handlers == {"h1", "h2"}

\* a handler that serves no request
NoRequest == [pc |-> "idle", id |-> 0, model |-> None]

\* a version that is not deployed, and one deployed at time t
Development == [is_production |-> FALSE, deployed_at |-> None]
Production(t) == [is_production |-> TRUE, deployed_at |-> t]

InitModels ==
    /\ sessions = [id \in {1} |->
                     [status |-> "pending", current_round |-> 0,
                      num_rounds |-> 1]]
    /\ rounds = <<>>
    /\ training_session_id = 1
    /\ config = [num_rounds |-> MaxRounds, accept_failures |-> TRUE,
                 min_fit_clients |-> 1]
    /\ training_session = None
    /\ current_round = 0
    /\ parameters = InitialParameters
    /\ server_round = 0
    /\ pc = "api"
    /\ clock = 1
    /\ fit_rounds = <<>>
    /\ evaluate_rounds = <<>>
    /\ last = NoCall
    /\ writers = <<>>
    /\ entries = <<>>
    /\ averaged = None
    /\ client_manager = NoManager
    /\ kwargs = None
    /\ versions \in {<<Development, Development>>,
                     <<Production(0), Development>>}
    /\ requests = [h \in Handlers |-> NoRequest]
    /\ client = None

ModelsFrame ==
    UNCHANGED <<sessions, rounds, training_session_id, config,
                training_session, current_round, parameters, server_round,
                pc, fit_rounds, evaluate_rounds, last, writers, entries,
                averaged, client_manager, kwargs, client>>

\* deploy: model = self.get_object()
DeployGet(h, id) ==
    /\ requests[h].pc = "idle"
    /\ clock <= MaxCalls
    /\ id \in DOMAIN versions
    /\ requests' = [requests EXCEPT ![h] =
                       [pc |-> "unset", id |-> id, model |-> versions[id]]]
    /\ clock' = clock + 1
    /\ UNCHANGED versions
    /\ ModelsFrame

\* deploy: ModelVersion.objects.filter(is_production=True)
\*             .update(is_production=False, deployed_at=None)
DeployUnset(h) ==
    /\ requests[h].pc = "unset"
    /\ versions' = [i \in DOMAIN versions |->
                      IF versions[i].is_production THEN Development
                      ELSE versions[i]]
    /\ requests' = [requests EXCEPT ![h].pc = "save"]
    /\ UNCHANGED clock
    /\ ModelsFrame

\* deploy: model.is_production = True; model.deployed_at = now; model.save()
DeploySave(h) ==
    /\ requests[h].pc = "save"
    /\ versions' = [versions EXCEPT ![requests[h].id] = Production(clock)]
    /\ requests' = [requests EXCEPT ![h] = NoRequest]
    /\ UNCHANGED clock
    /\ ModelsFrame

\* undeploy: get_object, is_production = False, deployed_at = None, save()
Undeploy(h, id) ==
    /\ requests[h].pc = "idle"
    /\ clock <= MaxCalls
    /\ id \in DOMAIN versions
    /\ versions' = [versions EXCEPT ![id] = Development]
    /\ clock' = clock + 1
    /\ UNCHANGED requests
    /\ ModelsFrame

\* PUT/PATCH /models/{id}/ with is_production in the body
UpdateVersion(h, id, is_production) ==
    /\ requests[h].pc = "idle"
    /\ clock <= MaxCalls
    /\ id \in DOMAIN versions
    /\ versions' = [versions EXCEPT ![id].is_production = is_production]
    /\ clock' = clock + 1
    /\ UNCHANGED requests
    /\ ModelsFrame

\* POST /models/ with is_production in the body
CreateVersion(h, is_production) ==
    /\ requests[h].pc = "idle"
    /\ clock <= MaxCalls
    /\ Len(versions) < MaxVersions
    /\ versions' = Append(versions, [Development EXCEPT
                                        !.is_production = is_production])
    /\ clock' = clock + 1
    /\ UNCHANGED requests
    /\ ModelsFrame

ModelsStep ==
    \/ \E h \in Handlers, id \in 1..MaxVersions : DeployGet(h, id)
    \/ \E h \in Handlers : DeployUnset(h)
    \/ \E h \in Handlers : DeploySave(h)
    \/ \E h \in Handlers, id \in 1..MaxVersions : Undeploy(h, id)
    \/ \E h \in Handlers, id \in 1..MaxVersions, is_production \in BOOLEAN :
         UpdateVersion(h, id, is_production)
    \/ \E h \in Handlers, is_production \in BOOLEAN :
         CreateVersion(h, is_production)

SpecModels == InitModels /\ [][ModelsStep]_vars

(***************************************************************************)
(* SpecClient: one FLClient and one fit call made on it.  Init draws the   *)
(* client's fields (its local model, its local_epochs, the size of its     *)
(* training set) and the arguments of the call (the global parameters and  *)
(* the config of the round); the one step is FLClient.fit as a whole.  A    *)
(* model is the parameters it was last set to and the number of epochs it   *)
(* was trained for since; the loss and accuracy of an epoch are written as  *)
(* the number of that epoch, 0 standing for the initial 0.0.                *)
(***************************************************************************)
\* the largest local_epochs drawn
MaxEpochs == 2

\* Trainer.train_epoch(): one pass over the training set, which returns the
\* tuple (epoch_loss, epoch_acc); dividing by the number of examples seen
\* raises when the training set is empty
train_epoch(model, examples) ==
    IF examples = 0
    THEN [raised |-> "ZeroDivisionError", model |-> model, value |-> None]
    ELSE LET trained == [model EXCEPT !.epochs = @ + 1]
         IN [raised |-> "None", model |-> trained,
             value |-> [type |-> "tuple",
                        items |-> <<trained.epochs, trained.epochs>>]]

\* value[key] for a string key: a tuple takes integers and slices only
getitem(value, key) ==
    IF value.type = "tuple"
    THEN [raised |-> "TypeError", value |-> None]
    ELSE IF key \in DOMAIN value.items
         THEN [raised |-> "None", value |-> value.items[key]]
         ELSE [raised |-> "KeyError", value |-> None]

\* for epoch in range(epochs): metrics = self.trainer.train_epoch();
\* train_loss = metrics['train_loss']; train_acc = metrics['train_acc']
RECURSIVE fit_epochs(_, _, _)
fit_epochs(s, examples, epochs) ==
    IF epochs <= 0
    THEN s
    ELSE LET metrics == train_epoch(s.model, examples)
             ran == [s EXCEPT !.model = metrics.model, !.epochs_run = @ + 1]
         IN IF metrics.raised # "None"
            THEN [ran EXCEPT !.raised = metrics.raised]
            ELSE LET train_loss == getitem(metrics.value, "train_loss")
                     train_acc == getitem(metrics.value, "train_acc")
                 IN IF train_loss.raised # "None"
                    THEN [ran EXCEPT !.raised = train_loss.raised]
                    ELSE IF train_acc.raised # "None"
                    THEN [ran EXCEPT !.raised = train_acc.raised]
                    ELSE fit_epochs([ran EXCEPT
                                       !.train_loss = train_loss.value,
                                       !.train_acc = train_acc.value],
                                    examples, epochs - 1)

\* the config of a round: without local_epochs, or with one of 0..MaxEpochs
FitConfigs == {EmptyDict} \cup [local_epochs : 0..MaxEpochs]

InitClient ==
    /\ sessions = [id \in {1} |->
                     [status |-> "pending", current_round |-> 0,
                      num_rounds |-> 1]]
    /\ rounds = <<>>
    /\ training_session_id = 1
    /\ config = None
    /\ training_session = None
    /\ current_round = 0
    /\ parameters = InitialParameters
    /\ server_round = 0
    /\ pc = "client"
    /\ clock = 0
    /\ fit_rounds = <<>>
    /\ evaluate_rounds = <<>>
    /\ last = NoCall
    /\ writers = <<>>
    /\ entries = <<>>
    /\ averaged = None
    /\ client_manager = NoManager
    /\ kwargs = None
    /\ versions = <<>>
    /\ requests = <<>>
    /\ client \in [pc : {"fit"},
                   model : [parameters : 0..1, epochs : 0..1],
                   local_epochs : 1..MaxEpochs,
                   examples : 0..2,
                   parameters : 1..2,
                   config : FitConfigs,
                   epochs_run : {0},
                   raised : {"None"},
                   result : {None}]

\* FLClient.fit(parameters, config)
ClientFit ==
    /\ pc = "client"
    /\ client.pc = "fit"
    /\ LET self == client
           set == [parameters |-> client.parameters, epochs |-> 0]
           epochs == Get(client.config, "local_epochs", self.local_epochs)
           done == fit_epochs([model |-> set, train_loss |-> 0,
                               train_acc |-> 0, raised |-> "None",
                               epochs_run |-> 0],
                              self.examples, epochs)
       IN client' =
            [client EXCEPT
               !.pc = IF done.raised = "None" THEN "returned" ELSE "raised",
               !.model = done.model,
               !.epochs_run = done.epochs_run,
               !.raised = done.raised,
               !.result =
                  IF done.raised = "None"
                  THEN FitRes(done.model, self.examples,
                              [loss |-> done.train_loss,
                               accuracy |-> done.train_acc])
                  ELSE None]
    /\ UNCHANGED <<sessions, rounds, training_session_id, config,
                   training_session, current_round, parameters, server_round,
                   pc, clock, fit_rounds, evaluate_rounds, last, writers,
                   entries, averaged, client_manager, kwargs, versions,
                   requests>>

ClientStep == ClientFit

SpecClient == InitClient /\ [][ClientStep]_vars

(***************************************************************************)
(* SpecRest: the start and complete actions of TrainingRoundViewSet, one   *)
(* request after the other, on a table of two rounds in any status.  A     *)
(* datetime is <<t>>, a duration <<seconds>>, None is <<>>.  A round is in  *)
(* progress through start or through run_training_job, which both set its  *)
(* start_time.  last records each request and its response.                 *)
(***************************************************************************)
\* a TrainingRound row with its timestamps
TimedRound(round_number, status, start_time, end_time, duration_seconds, metrics) ==
    [training_session_id |-> 1, round_number |-> round_number,
     num_clients |-> 2, status |-> status, start_time |-> start_time,
     end_time |-> end_time, duration_seconds |-> duration_seconds,
     metrics |-> metrics]

\* TrainingRound.calculate_duration
calculate_duration(self) ==
    IF self.start_time # None /\ self.end_time # None
    THEN [self EXCEPT !.duration_seconds =
                         <<self.end_time[1] - self.start_time[1]>>]
    ELSE self

\* dict.update(other)
dict_update(old, other) ==
    [k \in DOMAIN old \cup DOMAIN other |->
        IF k \in DOMAIN other THEN other[k] ELSE old[k]]

\* the response once the round is saved: self.get_serializer(round_obj).data
\* builds the fields of TrainingRoundSerializer, whose 'min_clients' is no
\* field of the model (ImproperlyConfigured, answered with status 500)
SerializedResponse == 500

\* TrainingRoundViewSet.start on the row get_object found: [response, row]
rest_start_unguarded(row, now) ==
    [response |-> SerializedResponse,
     row |-> [row EXCEPT !.status = "in_progress", !.start_time = <<now>>]]
rest_start(row, now) ==
    IF row.status # "pending"
    THEN [response |-> 400, row |-> row]
    ELSE [response |-> SerializedResponse,
          row |-> [row EXCEPT !.status = "in_progress",
                              !.start_time = <<now>>]]

\* TrainingRoundViewSet.complete on the row get_object found
rest_complete(row, metrics, now) ==
    IF row.status # "in_progress"
    THEN [response |-> 400, row |-> row]
    ELSE LET timed == calculate_duration(
                         [row EXCEPT !.status = "completed",
                                     !.end_time = <<now>>])
         IN [response |-> SerializedResponse,
             row |-> IF Truthy(metrics)
                     THEN [timed EXCEPT !.metrics = dict_update(@, metrics)]
                     ELSE timed]

\* the rounds a table can hold: pending, started at 0, written by the
\* strategy (completed, no timestamps), completed at 0, failed, cancelled
RestRounds(n) ==
    { TimedRound(n, "pending", None, None, None, EmptyDict),
      TimedRound(n, "in_progress", <<0>>, None, None, EmptyDict),
      TimedRound(n, "completed", None, None, None, [aggregated |-> 1]),
      TimedRound(n, "completed", <<0>>, <<0>>, <<0>>, [aggregated |-> 1]),
      TimedRound(n, "failed", <<0>>, None, None, EmptyDict),
      TimedRound(n, "cancelled", None, None, None, EmptyDict) }

\* the metrics of a complete request: none, or a loss
RestMetrics == {None, [loss |-> 1]}

InitRest ==
    /\ sessions = [id \in {1} |->
                     [status |-> "pending", current_round |-> 0,
                      num_rounds |-> 1]]
    /\ \E r1 \in RestRounds(1), r2 \in RestRounds(2) : rounds = <<r1, r2>>
    /\ training_session_id = 1
    /\ config = None
    /\ training_session = None
    /\ current_round = 0
    /\ parameters = InitialParameters
    /\ server_round = 0
    /\ pc = "rest"
    /\ clock = 1
    /\ fit_rounds = <<>>
    /\ evaluate_rounds = <<>>
    /\ last = [phase |-> "none", pk |-> 0, response |-> 0]
    /\ writers = <<>>
    /\ entries = <<>>
    /\ averaged = None
    /\ NothingElse

RestFrame ==
    UNCHANGED <<sessions, training_session_id, config, training_session,
                current_round, parameters, server_round, pc, fit_rounds,
                evaluate_rounds, apart>>

\* POST /api/v1/training/rounds/{pk}/start/
RestStart(pk) ==
    /\ pc = "rest"
    /\ clock <= MaxCalls
    /\ IF pk \in DOMAIN rounds
       THEN LET r == rest_start(rounds[pk], clock)
            IN /\ rounds' = [rounds EXCEPT ![pk] = r.row]
               /\ last' = [phase |-> "start", pk |-> pk,
                           response |-> r.response]
       ELSE /\ last' = [phase |-> "start", pk |-> pk, response |-> 404]
            /\ UNCHANGED rounds
    /\ clock' = clock + 1
    /\ RestFrame

\* POST /api/v1/training/rounds/{pk}/complete/ with body {"metrics": ...}
RestComplete(pk, metrics) ==
    /\ pc = "rest"
    /\ clock <= MaxCalls
    /\ IF pk \in DOMAIN rounds
       THEN LET r == rest_complete(rounds[pk], metrics, clock)
            IN /\ rounds' = [rounds EXCEPT ![pk] = r.row]
               /\ last' = [phase |-> "complete", pk |-> pk,
                           response |-> r.response]
       ELSE /\ last' = [phase |-> "complete", pk |-> pk, response |-> 404]
            /\ UNCHANGED rounds
    /\ clock' = clock + 1
    /\ RestFrame

RestStep ==
    \/ \E pk \in 1..3 : RestStart(pk)
    \/ \E pk \in 1..3, metrics \in RestMetrics : RestComplete(pk, metrics)

SpecRest == InitRest /\ [][RestStep]_vars

(***************************************************************************)
(* Claims                                                                  *)
(***************************************************************************)
Session == sessions[1]
Exited == pc \in {"returned", "raised", "interrupted"}

\* C1: start() moves a session to running only from pending; a session
\* that is completed, failed or cancelled is never moved back to running.
\* (As claimed; start() does not look at the status it overwrites.)
C1_RunningOnlyFromPending ==
    [][(Session'.status = "running" /\ Session.status # "running")
          => Session.status = "pending"]_vars

\* C2: whenever start() has returned or raised, the persisted status is
\* terminal: completed exactly when start() returned, failed when an
\* exception left it; never running.  (As claimed; an exception that is no
\* Exception passes the except clause.)
C2_TerminalWhenExited ==
    Exited => /\ Session.status \in {"completed", "failed"}
              /\ Session.status = "completed" <=> pc = "returned"

\* C3: the rounds are driven strictly in sequence: the fit phases begun are
\* rounds 1, 2, ... without gap or repeat, a fit phase begins only when the
\* evaluate phase of the round before has ended, no more than num_rounds
\* rounds are driven, and the strategy is handed the number of the round.
C3_RoundsInSequence ==
    /\ \A i \in DOMAIN fit_rounds : fit_rounds[i] = i
    /\ \A i \in DOMAIN evaluate_rounds : evaluate_rounds[i] = i
    /\ Len(fit_rounds) - Len(evaluate_rounds) \in {0, 1}
    /\ Len(fit_rounds) <= RoundsToDrive
    /\ pc = "evaluate" => Len(fit_rounds) = Len(evaluate_rounds) + 1
    /\ pc = "fit" => /\ Len(fit_rounds) = Len(evaluate_rounds)
                     /\ server_round = Len(fit_rounds) + 1
    /\ pc = "returned" => Len(evaluate_rounds) = RoundsToDrive
    /\ current_round \in {0} \cup {fit_rounds[i] : i \in DOMAIN fit_rounds}

C3_Witness ==
    /\ pc = "returned"
    /\ RoundsToDrive >= 2
    /\ Len(evaluate_rounds) = RoundsToDrive
    /\ current_round = RoundsToDrive

\* C4: after every round N that ended without a fatal exception the
\* persisted current_round of the session is N.  (As claimed; nothing
\* writes TrainingSession.current_round.)
C4_CurrentRoundPersisted ==
    pc \in {"fit", "evaluate", "returned"}
        => Session.current_round = Len(evaluate_rounds)

\* C5: within a run current_round never decreases and stays within
\* 0..num_rounds, num_rounds being the number of rounds driven
\* (config.num_rounds), for the persisted field, the loaded session and the
\* strategy's counter alike.
C5_Range ==
    /\ Session.current_round \in 0..RoundsToDrive
    /\ current_round \in 0..RoundsToDrive
    /\ training_session # None
          => training_session.current_round \in 0..RoundsToDrive

C5_CurrentRoundBounded ==
    /\ []C5_Range
    /\ [][/\ current_round' >= current_round
          /\ Session'.current_round >= Session.current_round]_vars

\* the counter has reached the rounds driven, which are more than the
\* session row plans
C5_Witness ==
    /\ current_round = RoundsToDrive
    /\ RoundsToDrive > Session.num_rounds
    /\ pc = "returned"

\* the rows of the ledger for the round of the run
RoundRows(rows) == Matching(rows, training_session_id, server_round)

\* C6: when every selected client's fit call fails, aggregate_fit skips the
\* aggregation: it returns no parameters, the global parameters after the
\* phase are those before it, and nothing is written to the ledger.
C6_NoSuccessesNoChange ==
    [][(pc = "fit" /\ last'.phase = "fit" /\ last'.results = <<>>)
          => /\ last'.value = None
             /\ last'.metrics = EmptyDict
             /\ ~last'.wrote
             /\ parameters' = parameters
             /\ rounds' = rounds]_vars

C6_Witness ==
    /\ pc = "evaluate"
    /\ last.phase = "fit"
    /\ last.results = <<>>
    /\ last.failures = Clients
    /\ parameters # InitialParameters
    /\ rounds # <<>>

\* C7: after a round whose fit phase failed (no successes, or a failure
\* while accept_failures is false) the ledger holds a record of the round
\* with status failed, and none with status completed.  (As claimed; no
\* record is written for such a round.)
C7_FailedRoundRecorded ==
    (/\ last.phase = "fit"
     /\ ~last.raised
     /\ \/ last.results = <<>>
        \/ ~config.accept_failures /\ last.failures # {})
        => /\ \E i \in RoundRows(rounds) : rounds[i].status = "failed"
           /\ \A i \in RoundRows(rounds) : rounds[i].status # "completed"

\* C8: with accept_failures false, a fit phase in which a client failed
\* leaves the global parameters as they were and writes nothing to the
\* ledger, whatever the other clients answered.
C8_StrictModeRejects ==
    [][(/\ pc = "fit" /\ last'.phase = "fit"
        /\ ~config.accept_failures /\ last'.failures # {})
          => /\ last'.value = None
             /\ parameters' = parameters
             /\ rounds' = rounds]_vars

C8_Witness ==
    /\ pc = "evaluate"
    /\ last.phase = "fit"
    /\ ~config.accept_failures
    /\ last.failures # {}
    /\ last.results # <<>>
    /\ parameters # weighted_parameters(last.results)

\* the client ids of a results list and of a ledger 'clients' list
ResultIds(results) == {results[i].cid : i \in DOMAIN results}
LedgerIds(clients) == {clients[i].client_id : i \in DOMAIN clients}

\* C9: with accept_failures true, a fit phase with failures and at least
\* min_fit_clients successes succeeds on the successes alone: parameters and
\* metrics are their weighted averages, the ledger counts them and lists no
\* failed client.  (As claimed; successes without examples make the average
\* divide by zero.)
C9_PartialFailureSucceeds ==
    (/\ last.phase = "fit"
     /\ config.accept_failures
     /\ last.failures # {}
     /\ last.results # <<>>
     /\ Len(last.results) >= config.min_fit_clients)
        => /\ ~last.raised
           /\ last.value = weighted_parameters(last.results)
           /\ last.value # NaN
           /\ parameters = last.value
           /\ last.metrics = weighted_average(fit_metrics(last.results)).value
           /\ last.db = "ok" =>
                 \E i \in RoundRows(rounds) :
                    /\ rounds[i].num_clients = Len(last.results)
                    /\ LedgerIds(rounds[i].metrics.clients)
                          \subseteq ResultIds(last.results)
                    /\ LedgerIds(rounds[i].metrics.clients)
                          \cap last.failures = {}

\* C10: a ledger write that fails, in the fit upsert or in the evaluation
\* attach, stays inside the strategy: the aggregate_* call returns what it
\* returns when the write succeeds, the fit result becomes the global
\* parameters, the run goes on to the next phase with the session not
\* failed, and what the write would have stored is not stored later.
C10_LedgerFailureContained ==
    [][(last' # last /\ last'.wrote /\ last'.db # "ok")
          => /\ ~last'.raised
             /\ pc' # "raised"
             /\ Session'.status # "failed"
             /\ pc = "fit" =>
                  /\ pc' = "evaluate"
                  /\ parameters' = last'.value
                  /\ \E zero_div \in {"raise", "nan"} :
                       LET ok == aggregate_fit(rounds, training_session_id,
                                     server_round, last'.results,
                                     last'.failures, config.accept_failures,
                                     zero_div, clock, "ok")
                       IN /\ ~ok.raised
                          /\ ok.value = last'.value
                          /\ ok.metrics = last'.metrics
                  /\ \A i \in RoundRows(rounds') :
                       rounds'[i].metrics = EmptyDict
             /\ pc = "evaluate" =>
                  /\ pc' \in {"fit", "returned"}
                  /\ LET ok == aggregate_evaluate(rounds, training_session_id,
                                    server_round, last'.results,
                                    last'.failures, config.accept_failures,
                                    "ok")
                     IN /\ ~ok.raised
                        /\ ok.value = last'.value
                        /\ ok.metrics = last'.metrics
                  /\ rounds' = rounds]_vars

\* the fit upsert failed in save() and the evaluation attach failed too, and
\* the run completed with the aggregated parameters
C10_Witness ==
    /\ pc = "returned"
    /\ Session.status = "completed"
    /\ last.phase = "evaluate"
    /\ last.wrote
    /\ last.db # "ok"
    /\ parameters # InitialParameters
    /\ RoundRows(rounds) # {}
    /\ \A i \in RoundRows(rounds) : rounds[i].metrics = EmptyDict

\* C11: a failing evaluate call of a client stays with that client: whatever
\* the clients' evaluate calls did, all of them failing included,
\* aggregate_evaluate returns without raising and the session is not marked
\* failed.  (As claimed; with no aggregated loss the closing print raises.)
C11_EvaluateFailuresIsolated ==
    (last.phase = "evaluate" /\ last.failures # {})
        => /\ ~last.raised
           /\ pc # "raised"
           /\ Session.status # "failed"

\* the rows of the ledger for the round of a ledger call
CallRows(rows, call) == Matching(rows, training_session_id, call.round_number)

\* the metrics map a fit upsert stores
UpsertMetrics(call) ==
    [aggregated |-> call.args.aggregated_metrics,
     clients    |-> call.args.client_metrics,
     timestamp  |-> call.now]

\* the rows that are not in the set S are the same in both tables
SameOutside(S, before, after) ==
    \A i \in DOMAIN before \ S : i \in DOMAIN after /\ after[i] = before[i]

\* C12: the fit upsert is idempotent on (session, round_number): after each
\* call there is at most one record of the key; a call for a key that has a
\* record updates that record and adds none; after a call whose database
\* operations succeed there is exactly one, completed, with the num_clients
\* and the metrics of that call.  Records of other keys are left alone.
C12_UpsertIdempotent ==
    [][last'.phase = "upsert" =>
         LET before == CallRows(rounds, last')
             after == CallRows(rounds', last')
         IN /\ Cardinality(after) <= 1
            /\ before # {} => after = before /\ Len(rounds') = Len(rounds)
            /\ Len(rounds') <= Len(rounds) + 1
            /\ SameOutside(after, rounds, rounds')
            /\ last'.db = "ok" =>
                 /\ Cardinality(after) = 1
                 /\ \A i \in after :
                      /\ rounds'[i].status = "completed"
                      /\ rounds'[i].num_clients = last'.args.num_clients
                      /\ rounds'[i].metrics = UpsertMetrics(last')]_vars

\* a second upsert of the same key, with other values, has replaced those
\* of the first
C12_Witness ==
    /\ last.phase = "upsert"
    /\ last.db = "ok"
    /\ last.found = 1
    /\ \E i \in CallRows(rounds, last) :
         /\ rounds[i].metrics = UpsertMetrics(last)
         /\ rounds[i].metrics.timestamp > 1
         /\ rounds[i].num_clients = 2
         /\ Len(rounds) = 1

\* the sub-keys of the metrics map that the fit upsert writes
FitKeys == {"aggregated", "clients", "timestamp"}

\* C13: a fit upsert of a round that has a record leaves every sub-key of
\* the record's metrics map other than aggregated, clients and timestamp as
\* it was, an evaluation block attached earlier in particular.  (As claimed;
\* the upsert assigns a new map.)
C13_UpsertKeepsOtherKeys ==
    [][(last'.phase = "upsert" /\ last'.db = "ok" /\ last'.found = 1) =>
         \A i \in CallRows(rounds, last') :
            \A k \in DOMAIN rounds[i].metrics \ FitKeys :
               /\ k \in DOMAIN rounds'[i].metrics
               /\ rounds'[i].metrics[k] = rounds[i].metrics[k]]_vars

\* C14: the evaluation attach on a round that has a record changes nothing
\* but the evaluation sub-key of that record's metrics map, which becomes
\* {loss, metrics} of the call: the other sub-keys, status, num_clients and
\* every other record are as before; when the database fails the record is
\* as before altogether.
C14_AttachOnlyEvaluation ==
    [][(last'.phase = "attach" /\ last'.found = 1) =>
         LET rows == CallRows(rounds, last')
         IN /\ Len(rounds') = Len(rounds)
            /\ SameOutside(rows, rounds, rounds')
            /\ \A i \in rows :
                 /\ rounds'[i].status = rounds[i].status
                 /\ rounds'[i].num_clients = rounds[i].num_clients
                 /\ rounds'[i].round_number = rounds[i].round_number
                 /\ rounds'[i].training_session_id
                       = rounds[i].training_session_id
                 /\ DOMAIN rounds'[i].metrics \subseteq
                       DOMAIN rounds[i].metrics \cup {"evaluation"}
                 /\ \A k \in DOMAIN rounds[i].metrics \ {"evaluation"} :
                      /\ k \in DOMAIN rounds'[i].metrics
                      /\ rounds'[i].metrics[k] = rounds[i].metrics[k]
                 /\ last'.db = "ok" =>
                      rounds'[i].metrics.evaluation =
                         [loss |-> last'.args.loss,
                          metrics |-> last'.args.metrics]
                 /\ last'.db # "ok" => rounds'[i] = rounds[i]]_vars

\* an evaluation was attached to a round that the fit upsert had written
C14_Witness ==
    /\ last.phase = "attach"
    /\ last.db = "ok"
    /\ last.found = 1
    /\ \E i \in CallRows(rounds, last) :
         /\ DOMAIN rounds[i].metrics = FitKeys \cup {"evaluation"}
         /\ rounds[i].metrics.evaluation.loss = last.args.loss
         /\ rounds[i].metrics.clients # <<>>
         /\ rounds[i].num_clients = 2

\* C15: the evaluation attach for a round that has no record fails: the
\* caller gets an error out of the call, and no record is created.  (As
\* claimed; the method prints that the round was not found and returns.)
C15_AttachWithoutRoundFails ==
    [][(last'.phase = "attach" /\ last'.db = "ok" /\ last'.found = 0) =>
         /\ last'.raised
         /\ rounds' = rounds]_vars

\* C16: the fit upsert is atomic per key among concurrent writers: the
\* ledger never holds two records of one (session, round_number), and no
\* upsert or evaluation attach fails because it finds several.  (As
\* claimed; two writers that both find no record both insert one.)
C16_UpsertAtomic ==
    /\ \A round_number \in 1..MaxRounds :
         Cardinality(Matching(rounds, training_session_id, round_number)) <= 1
    /\ \A w \in DOMAIN writers :
         writers[w].error # "MultipleObjectsReturned"

\* the sum of f over the index set S
RECURSIVE SumOver(_, _)
SumOver(f, S) ==
    IF S = {} THEN 0
    ELSE LET i == CHOOSE j \in S : TRUE IN f[i] + SumOver(f, S \ {i})

\* the total sample count of entries, the keys any entry reports, and the
\* entries that report a key
TotalExamples == SumOver([i \in DOMAIN entries |-> entries[i].num_examples],
                         DOMAIN entries)
Keys == UNION {DOMAIN entries[i].metrics : i \in DOMAIN entries}
Defining(key) == {i \in DOMAIN entries : key \in DOMAIN entries[i].metrics}

\* C17: for entries with a positive total sample count weighted_average
\* returns a map over exactly the keys that any entry reports, each value
\* being sum(sample_count_i * metrics_i.get(key, 0)) / sum(sample_count_i),
\* the entries without the key counted in the denominator; for the empty
\* list it returns the empty map.
C17_WeightedAverageFormula ==
    averaged # None =>
       LET r == averaged.metrics
       IN /\ entries = <<>> => ~r.raised /\ r.value = EmptyDict
          /\ TotalExamples > 0 =>
               /\ ~r.raised
               /\ DOMAIN r.value = Keys
               /\ \A key \in Keys :
                    /\ r.value[key][2] > 0
                    /\ GCD(r.value[key][1], r.value[key][2]) = 1
                    /\ r.value[key][1] * TotalExamples
                         = r.value[key][2]
                           * SumOver([i \in DOMAIN entries |->
                                        IF i \in Defining(key)
                                        THEN entries[i].num_examples
                                             * entries[i].metrics[key]
                                        ELSE 0],
                                     DOMAIN entries)

\* an average over two entries of which each lacks a key of the other:
\* loss is 2 * 1 / 5, accuracy 3 * 1 / 5
C17_Witness ==
    /\ averaged # None
    /\ Len(entries) = 2
    /\ Defining("loss") = {1}
    /\ Defining("accuracy") = {2}
    /\ ~averaged.metrics.raised
    /\ averaged.metrics.value = [loss |-> <<2, 5>>, accuracy |-> <<3, 5>>]

\* C18: for a non-empty list of entries that all have a positive sample
\* count, each value weighted_average returns lies between the least and
\* the greatest value of that metric among the entries that report it.  (As
\* claimed; an entry without the key pulls the average towards 0.)
C18_AverageWithinBounds ==
    (/\ averaged # None
     /\ entries # <<>>
     /\ \A i \in DOMAIN entries : entries[i].num_examples > 0)
        => /\ ~averaged.metrics.raised
           /\ \A key \in DOMAIN averaged.metrics.value :
                LET v == averaged.metrics.value[key]
                IN /\ \E i \in Defining(key) :
                        entries[i].metrics[key] * v[2] <= v[1]
                   /\ \E i \in Defining(key) :
                        v[1] <= entries[i].metrics[key] * v[2]

\* C19: for a non-empty list whose sample counts sum to 0 weighted_average
\* fails with a division by zero and returns no map, whatever the metric
\* maps are, all of them empty included.  (As claimed; with no key at all
\* nothing is divided and the empty map is returned.)
C19_ZeroTotalFails ==
    (averaged # None /\ entries # <<>> /\ TotalExamples = 0)
        => averaged.metrics.raised

\* entries in the order p of its indices
Permuted(p) == [i \in DOMAIN entries |-> entries[p[i]]]

\* C20: the aggregation does not depend on the order of arrival: for every
\* permutation of the entries weighted_average returns the same map (or
\* fails alike) and the aggregated parameters are the same; and the call
\* leaves the entries as they were.
C20_Invariant ==
    averaged # None =>
       \A p \in Orders(DOMAIN entries) :
          /\ weighted_average(fit_metrics(Permuted(p))) = averaged.metrics
          /\ super_aggregate_fit(Permuted(p), {}, TRUE, averaged.zero_div)
                = averaged.fit

C20_OrderIndependent ==
    /\ []C20_Invariant
    /\ [][entries' = entries]_vars

\* three different entries were averaged, over two keys
C20_Witness ==
    /\ averaged # None
    /\ Len(entries) = 3
    /\ \A i, j \in DOMAIN entries : entries[i] = entries[j] => i = j
    /\ ~averaged.fit.raised
    /\ averaged.fit.value = <<3, 1>>
    /\ Keys = {"loss", "accuracy"}
    /\ Defining("accuracy") # DOMAIN entries

\* the successful results of a fit call, their total sample count and the
\* sum of their parameters weighted by sample count
ResultExamples(results) ==
    SumOver([i \in DOMAIN results |-> results[i].num_examples], DOMAIN results)
ResultWeighted(results) ==
    SumOver([i \in DOMAIN results |->
                results[i].num_examples * results[i].parameters],
            DOMAIN results)

\* C21: after a fit phase that returned parameters the global parameters are
\* the average of the successful clients' parameters weighted by sample
\* count over the total sample count of the successes, whatever the global
\* parameters were before and whichever clients failed: the fraction
\* returned, in lowest terms, times the total is the weighted sum.  (With a
\* total of 0 there is no such number: the parameters returned are NaN.)
C21_WeightedParameters ==
    [][(pc = "fit" /\ pc' = "evaluate" /\ last'.phase = "fit"
        /\ last'.value # None)
          => LET v == last'.value
                 total == ResultExamples(last'.results)
             IN /\ parameters' = v
                /\ total > 0 =>
                     /\ v[2] > 0
                     /\ GCD(v[1], v[2]) = 1
                     /\ v[1] * total = v[2] * ResultWeighted(last'.results)
                /\ total = 0 => v = NaN]_vars

\* two clients with sample counts 2 and 1 and parameters 4 and 1: the blend
\* is 2/3 * 4 + 1/3 * 1 = 3, after a round that had left other parameters
C21_Witness ==
    /\ pc = "evaluate"
    /\ last.phase = "fit"
    /\ Len(last.results) = 2
    /\ {<<last.results[i].num_examples, last.results[i].parameters>> :
           i \in DOMAIN last.results} = {<<2, 4>>, <<1, 1>>}
    /\ parameters = <<3, 1>>
    /\ rounds # <<>>
    /\ server_round > 1

\* the successes of a fit call that report examples, and the ids of those
\* that report none
WithExamples(results) == SelectSeq(results, LAMBDA r : r.num_examples > 0)
WithoutExamples(results) ==
    {results[i].cid : i \in {j \in DOMAIN results :
                                results[j].num_examples = 0}}

\* C22: a result with sample_count 0 is left out of the aggregation like a
\* failure: the call does not raise, parameters and metrics are those of
\* the results that report examples (none when there is no such result),
\* and the ledger neither counts nor lists the client.  (As claimed; the
\* result is aggregated like any other.)
C22_ZeroSamplesExcluded ==
    (last.phase = "fit" /\ WithoutExamples(last.results) # {})
        => LET kept == WithExamples(last.results)
               failed == last.failures \cup WithoutExamples(last.results)
               asFailed == super_aggregate_fit(kept, failed,
                                               config.accept_failures, "raise")
           IN /\ ~last.raised
              /\ last.value = asFailed.value
              /\ last.metrics = asFailed.metrics
              /\ \A i \in RoundRows(rounds) :
                   /\ last.db = "ok" => rounds[i].num_clients = Len(kept)
                   /\ "clients" \in DOMAIN rounds[i].metrics =>
                        LedgerIds(rounds[i].metrics.clients)
                           \cap WithoutExamples(last.results) = {}

\* C23: a phase that finds fewer than min_available_clients clients is
\* retried within round_timeout only: once a phase has waited longer than
\* that and the run has moved on from it, still with too few clients, the
\* session is failed.  (As claimed; the wait lasts until clients connect or
\* Flower's own timeout passes, the phase is then cancelled and the run
\* goes on to completed.)
C23_TooFewClientsFails ==
    (/\ client_manager.waited > config.round_timeout
     /\ client_manager.phase # <<server_round, pc>>
     /\ client_manager.available < config.min_available_clients)
        => Session.status = "failed"

\* the arguments the claim allows
ValidArguments ==
    /\ kwargs.min_fit_clients >= 1
    /\ kwargs.min_evaluate_clients >= 1
    /\ kwargs.min_available_clients >= kwargs.min_fit_clients
    /\ kwargs.min_available_clients >= kwargs.min_evaluate_clients
    /\ \A f \in {kwargs.fraction_fit, kwargs.fraction_evaluate} :
          f[1] > 0 /\ f[1] <= f[2]

\* C24: the construction of an FLServerConfig succeeds exactly when
\* min_fit_clients >= 1, min_evaluate_clients >= 1, min_available_clients
\* is at least both, and both fractions are in (0, 1]; it raises ValueError
\* otherwise; the config constructed has every field as it was passed; and
\* no session is loaded or round started by then.
C24_ConfigValidated ==
    /\ pc = "constructed" => ValidArguments /\ config = kwargs
    /\ pc = "ValueError" => ~ValidArguments /\ config = None
    /\ pc \in {"constructed", "ValueError"} =>
          /\ training_session = None
          /\ fit_rounds = <<>>
          /\ rounds = <<>>

\* a construction that raised for min_available_clients being less than
\* min_evaluate_clients alone
C24_Witness ==
    /\ pc = "ValueError"
    /\ kwargs.min_fit_clients = 1
    /\ kwargs.min_evaluate_clients = 2
    /\ kwargs.min_available_clients = 1
    /\ kwargs.fraction_fit = <<1, 1>>
    /\ kwargs.fraction_evaluate = <<1, 2>>

\* C25: a server constructed for an id that no TrainingSession has fails
\* with the not-found error and does nothing else: no session row changes,
\* none becomes running, no strategy is made, start() is not reached, no
\* round is driven and no ledger record written.
C25_UnknownSessionNoEffect ==
    [][training_session_id \notin DOMAIN sessions
          => /\ pc = "new" => pc' = "not_found"
             /\ pc' \in {"new", "not_found"}
             /\ sessions' = sessions
             /\ training_session' = None
             /\ rounds' = rounds
             /\ fit_rounds' = <<>>
             /\ evaluate_rounds' = <<>>
             /\ current_round' = 0
             /\ server_round' = 0
             /\ parameters' = parameters]_vars

\* the construction for id 2 has raised, the one session being pending still
C25_Witness ==
    /\ pc = "not_found"
    /\ training_session_id = 2
    /\ DOMAIN sessions = {1}
    /\ sessions[1].status = "pending"
    /\ training_session = None
    /\ rounds = <<>>

\* C26: at most one ModelVersion is the production one, in every state the
\* REST operations on model versions can lead to, in any interleaving.  (As
\* claimed; is_production can be written through create and update, and
\* the steps of two deploy requests can interleave.)
C26_OneProduction ==
    Cardinality({i \in DOMAIN versions : versions[i].is_production}) <= 1

\* C28: FLClient.fit sets the local model to the global parameters it
\* received, runs exactly local_epochs epochs (the config's, else the
\* client's own) and returns the trained parameters, the size of the
\* training set and the loss and accuracy of the final epoch.
\* (Does not hold: the first epoch's metrics are read with a string key
\* from the tuple train_epoch returns, and fit raises.)
FitEpochs == Get(client.config, "local_epochs", client.local_epochs)
C28_FitRunsLocalEpochs ==
    (pc = "client" /\ client.pc # "fit")
        => /\ client.pc = "returned"
           /\ client.epochs_run = FitEpochs
           /\ client.model = [parameters |-> client.parameters,
                              epochs |-> FitEpochs]
           /\ client.result =
                FitRes(client.model, client.examples,
                       [loss |-> FitEpochs, accuracy |-> FitEpochs])

\* the successes of a fit phase that returned a non-empty metrics map
WithMetrics(results) == SelectSeq(results, LAMBDA r : r.metrics # EmptyDict)
FitWritten == pc = "evaluate" /\ last.phase = "fit" /\ last.wrote /\ last.db = "ok"

\* C29, as claimed: in a round record written by the fit upsert, num_clients
\* is the length of metrics['clients'] and the ids listed there are exactly
\* the ids of the successful results, also when a success returned an empty
\* metrics map.
C29_CountAgreesWithClients ==
    FitWritten
        => \A i \in RoundRows(rounds) :
              /\ rounds[i].num_clients = Len(rounds[i].metrics.clients)
              /\ LedgerIds(rounds[i].metrics.clients)
                    = ResultIds(last.results)

\* C29, amended: in a round record the fit upsert wrote completely,
\* num_clients is the number of successful results, and metrics['clients']
\* lists, in arrival order, exactly the successes that returned a non-empty
\* metrics map: it is never longer than num_clients and as long when every
\* success returned metrics.
C29_ClientsAreSuccessesWithMetrics ==
    FitWritten
        => \A i \in RoundRows(rounds) :
              LET clients == rounds[i].metrics.clients
                  reported == WithMetrics(last.results)
              IN /\ rounds[i].num_clients = Len(last.results)
                 /\ Len(clients) = Len(reported)
                 /\ \A j \in DOMAIN clients :
                       /\ clients[j].client_id = reported[j].cid
                       /\ clients[j].num_examples = reported[j].num_examples
                 /\ Len(clients) <= rounds[i].num_clients
                 /\ (reported = last.results)
                       => Len(clients) = rounds[i].num_clients

C29_Witness ==
    /\ FitWritten
    /\ Len(last.results) = 2
    /\ Len(WithMetrics(last.results)) = 1
    /\ last.results[1].metrics = EmptyDict
    /\ \E i \in RoundRows(rounds) :
          /\ rounds[i].num_clients = 2
          /\ Len(rounds[i].metrics.clients) = 1
          /\ rounds[i].metrics.clients[1].client_id = last.results[2].cid

\* the request of this step is a start, or a complete, made on round pk
Requested(phase, pk) == clock' # clock /\ last'.phase = phase /\ last'.pk = pk

\* C30: the start action changes a round only when it is pending, to
\* in_progress with start_time set to now; the complete action changes a
\* round only when it is in_progress, to completed with end_time set to now
\* and duration_seconds = end_time - start_time; a start or complete made in
\* another status is answered with an error 400 and leaves the record as it
\* was; no request touches another round, and a completed round never goes
\* back to in_progress.
C30_GuardedLifecycle ==
    [][\A pk \in DOMAIN rounds :
         LET old == rounds[pk]
             new == rounds'[pk]
         IN /\ Requested("start", pk) =>
                 IF old.status = "pending"
                 THEN new = [old EXCEPT !.status = "in_progress",
                                        !.start_time = <<clock>>]
                 ELSE last'.response = 400 /\ new = old
            /\ Requested("complete", pk) =>
                 IF old.status = "in_progress"
                 THEN /\ new.status = "completed"
                      /\ new.end_time = <<clock>>
                      /\ old.start_time # None
                      /\ new.start_time = old.start_time
                      /\ new.duration_seconds =
                            <<new.end_time[1] - new.start_time[1]>>
                 ELSE last'.response = 400 /\ new = old
            /\ last'.pk # pk => new = old
            /\ old.status = "completed" => new.status # "in_progress"]_vars

C30_Witness ==
    /\ pc = "rest"
    /\ last.phase = "start"
    /\ last.response = 400
    /\ last.pk \in DOMAIN rounds
    /\ rounds[last.pk].status = "completed"
    /\ rounds[last.pk].start_time = <<1>>
    /\ rounds[last.pk].end_time = <<2>>
    /\ rounds[last.pk].duration_seconds = <<1>>

====
